---- MODULE Spec2Model ----
(***************************************************************************)
(* Active-message bridge of async-ucx (src/ucp/endpoint/am.rs).            *)
(*                                                                         *)
(* The worker is single threaded (Rc<AmHandler>, spawn_local): the code    *)
(* between two await points runs atomically, and the native arrival        *)
(* callback runs inside a progress step.  One action is therefore one      *)
(* public call up to its first suspension, one resumption of a suspended   *)
(* task, or one invocation of the native callback.                         *)
(***************************************************************************)
EXTENDS Integers, Sequences, FiniteSets, TLC

\* ---- bounds of the model ------------------------------------------------
NumConsumers == 2     \* consumer tasks calling am_recv
MaxHandlers == 2      \* AmHandler allocations (registrations that install)
MaxArrivals == 2      \* invocations of the native arrival callback
MaxRegCalls == 2      \* am_register calls on one id between two am_unregister
MaxDataLen == 2       \* bytes of a payload held by a message handle
MaxSends == 1         \* sends submitted by the task that holds a handle

\* the message ids the worker's handler map can hold (those of tests::send_recv)
MsgIds == {12, 16}
\* the message id the public calls of Spec and QueueSpec use
Ids == {16}
Consumers == 1..NumConsumers

\* payloads the transport hands to the arrival callback: empty or not
Payloads == {<<>>, <<1>>}

\* ucp_am_recv_attr_t bits used by the code, as a set of flag names:
\* attr & FLAG != 0 is FLAG \in attr
FLAG_DATA == "UCP_AM_RECV_ATTR_FLAG_DATA"
FLAG_RNDV == "UCP_AM_RECV_ATTR_FLAG_RNDV"
AttrFlags == {FLAG_DATA, FLAG_RNDV}
Attrs == SUBSET AttrFlags

UCS_OK == "UCS_OK"
UCS_INPROGRESS == "UCS_INPROGRESS"

\* Option<T>: None is the empty sequence, Some(x) is <<x>>
None == <<>>
Some(x) == <<x>>
\* a null Rc / absent map entry
NoHandler == 0

VARIABLES
    am_handlers,   \* Worker.am_handlers: id -> index of its AmHandler, or NoHandler
    heap,          \* every AmHandler ever allocated (Rc::into_raw keeps each alive)
    native,        \* the transport's table: id -> arg of the installed callback
    pc,            \* per consumer task: "idle", "waiting" (in notified().await), "woken"
    ref,           \* per consumer task: the AmHandler its wait_msg runs on
    ret,           \* per consumer task: what its last am_recv returned
    status,        \* what the last native callback returned to the transport
    nArrived,      \* number of native callback invocations so far
    arrived,       \* history: per AmHandler, the headers enqueued, in order
    delivered,     \* history: per AmHandler, the headers returned, in order
    calls,         \* history: per id, am_register calls since the last am_unregister
    installs,      \* history: per id, native installs since the last am_unregister
    amsg,          \* the AmMsg a task holds (None: the task holds no handle)
    wire,          \* history: header and payload bytes the peer sent for amsg
    task,          \* the holder: "idle", "await" (in RequestHandle.await), "dropped", "panicked"
    call,          \* the holder's current or last call and what it returned
    iov,           \* the destination regions of the current or last retrieval
    request,       \* status of the native request the holder awaits, "none" without one
    released,      \* history: ucp_am_data_release calls for amsg's descriptor
    consumed,      \* history: pulls of amsg's descriptor the transport completed
    sends          \* history: ucp_am_send_nbx submissions

qvars == <<am_handlers, heap, native, pc, ref, ret, status, nArrived,
           arrived, delivered, calls, installs>>
hvars == <<amsg, wire, task, call, iov, request, released, consumed, sends>>
vars == <<am_handlers, heap, native, pc, ref, ret, status, nArrived,
          arrived, delivered, calls, installs,
          amsg, wire, task, call, iov, request, released, consumed, sends>>

Handles == 1..Len(heap)

\* ---- AmData / RawMsg ----------------------------------------------------
AmData_from_raw(data, attr) ==
    IF Len(data) = 0 THEN None
    ELSE IF FLAG_DATA \in attr THEN Some([type |-> "Data", bytes |-> data])
    ELSE IF FLAG_RNDV \in attr THEN Some([type |-> "Rndv", bytes |-> data])
    ELSE Some([type |-> "Eager", bytes |-> data])

RawMsg_from_raw(id, header, data, attr) ==
    [id |-> id, header |-> header, data |-> AmData_from_raw(data, attr), attr |-> attr]

\* ---- VecDeque ------------------------------------------------------------
\* variant: the envelope is put at the front of the queue
push_back_front(q, m) == <<m>> \o q
push_back(q, m) == Append(q, m)
pop_front_value(q) == IF q = <<>> THEN None ELSE Some(Head(q))
\* variant: the front envelope is read but stays queued
pop_front_rest_keep(q) == q
pop_front_rest(q) == IF q = <<>> THEN q ELSE Tail(q)

\* ---- AmHandler -----------------------------------------------------------
\* variant: the handler does not record the id it was created for
AmHandler_new_no_id(id) ==
    [id |-> 0, msgs |-> <<>>,
     notify |-> [permit |-> FALSE, waiters |-> <<>>],
     unregistered |-> FALSE]
AmHandler_new(id) ==
    [id |-> id, msgs |-> <<>>,
     notify |-> [permit |-> FALSE, waiters |-> <<>>],
     unregistered |-> FALSE]

\* variant: unregistering also empties the queue
AmHandler_unregister_clear(h) == [h EXCEPT !.unregistered = TRUE, !.msgs = <<>>]
AmHandler_unregister(h) == [h EXCEPT !.unregistered = TRUE]

\* Notify::notify_one: wake the longest-waiting task, or store the one permit
notify_one(n) ==
    IF n.waiters # <<>> THEN [n EXCEPT !.waiters = Tail(@)]
    ELSE [n EXCEPT !.permit = TRUE]
notify_woken(n) == IF n.waiters # <<>> THEN {Head(n.waiters)} ELSE {}

\* Notify::notified().await on an empty queue: a stored permit is consumed and
\* the loop runs once more (flag and queue are as before), then the task parks
notified_park(n, c) == [permit |-> FALSE, waiters |-> Append(n.waiters, c)]

\* variant: the envelope is pushed but no waiter is signalled
callback_no_notify(h, header, data, attr) ==
    LET msg == RawMsg_from_raw(heap[h].id, header, data, attr)
    IN  /\ heap' = [heap EXCEPT ![h].msgs = push_back(@, msg)]
        /\ pc' = pc
        /\ arrived' = [arrived EXCEPT ![h] = Append(@, header)]

\* AmHandler::callback: build the envelope, push it, signal one waiter
callback(h, header, data, attr) ==
    LET msg == RawMsg_from_raw(heap[h].id, header, data, attr)
        n == heap[h].notify
    IN  /\ heap' = [heap EXCEPT ![h].msgs = push_back(@, msg),
                                ![h].notify = notify_one(n)]
        /\ pc' = [c \in Consumers |-> IF c \in notify_woken(n) THEN "woken" ELSE pc[c]]
        /\ arrived' = [arrived EXCEPT ![h] = Append(@, header)]

AmMsg_from_raw(msg) == [msg |-> msg]

\* AmHandler::wait_msg, from the top of its loop to its return or suspension
wait_msg(c, h) ==
    LET q == heap[h].msgs
        popped == pop_front_value(q)
        handed == IF popped = None THEN None ELSE Some(AmMsg_from_raw(popped[1]))
        return == /\ heap' = [heap EXCEPT ![h].msgs = pop_front_rest(@)]
                  /\ ret' = [ret EXCEPT ![c] = handed]
                  /\ delivered' = [delivered EXCEPT ![h] =
                                     IF popped = None THEN @ ELSE Append(@, popped[1].header)]
                  /\ pc' = [pc EXCEPT ![c] = "idle"]
                  /\ ref' = [ref EXCEPT ![c] = NoHandler]
    IN  IF ~heap[h].unregistered
        THEN IF popped # None
             THEN return
             ELSE /\ heap' = [heap EXCEPT ![h].notify = notified_park(@, c)]
                  /\ pc' = [pc EXCEPT ![c] = "waiting"]
                  /\ ref' = [ref EXCEPT ![c] = h]
                  /\ ret' = [ret EXCEPT ![c] = None]
                  /\ delivered' = delivered
        ELSE return

\* ---- Worker --------------------------------------------------------------
\* variant: the presence test of am_register always fails
contains_key_never(map, id) == FALSE
contains_key(map, id) == map[id] # NoHandler

\* the trampoline's return value (am_register::callback)
callback_status(attr) ==
    IF attr \cap {FLAG_DATA, FLAG_RNDV} # {} THEN UCS_INPROGRESS ELSE UCS_OK

\* the transport delivers one active message for id to the installed callback
native_callback(id, data, attr) ==
    /\ native[id] # NoHandler
    /\ nArrived < MaxArrivals
    /\ nArrived' = nArrived + 1
    /\ callback(native[id], nArrived + 1, data, attr)
    /\ status' = callback_status(attr)
    /\ UNCHANGED <<am_handlers, native, ref, ret, delivered, calls, installs>>
    /\ UNCHANGED hvars

am_register(id) ==
    /\ calls[id] < MaxRegCalls
    /\ calls' = [calls EXCEPT ![id] = @ + 1]
    /\ IF contains_key(am_handlers, id)
       THEN UNCHANGED <<am_handlers, heap, native, arrived, delivered, installs>>
       ELSE /\ Len(heap) < MaxHandlers
            /\ heap' = Append(heap, AmHandler_new(id))
            /\ native' = [native EXCEPT ![id] = Len(heap) + 1]
            /\ installs' = [installs EXCEPT ![id] = @ + 1]
            /\ am_handlers' = [am_handlers EXCEPT ![id] = Len(heap) + 1]
            /\ arrived' = Append(arrived, <<>>)
            /\ delivered' = Append(delivered, <<>>)
    /\ UNCHANGED <<pc, ref, ret, status, nArrived>>
    /\ UNCHANGED hvars

am_unregister(id) ==
    /\ am_handlers' = [am_handlers EXCEPT ![id] = NoHandler]
    /\ heap' = IF am_handlers[id] # NoHandler
               THEN [heap EXCEPT ![am_handlers[id]] = AmHandler_unregister(@)]
               ELSE heap
    /\ calls' = [calls EXCEPT ![id] = 0]
    /\ installs' = [installs EXCEPT ![id] = 0]
    /\ UNCHANGED <<native, pc, ref, ret, status, nArrived, arrived, delivered>>
    /\ UNCHANGED hvars

\* variant: with no entry in the map, the handler last installed for the id
\* is waited on instead
am_recv_last_installed(c, id) ==
    /\ pc[c] = "idle"
    /\ IF am_handlers[id] # NoHandler
       THEN wait_msg(c, am_handlers[id])
       ELSE IF native[id] # NoHandler
       THEN wait_msg(c, native[id])
       ELSE /\ ret' = [ret EXCEPT ![c] = None]
            /\ UNCHANGED <<heap, pc, ref, delivered>>
    /\ UNCHANGED <<am_handlers, native, status, nArrived, arrived, calls, installs>>
    /\ UNCHANGED hvars

am_recv(c, id) ==
    /\ pc[c] = "idle"
    /\ IF am_handlers[id] # NoHandler
       THEN wait_msg(c, am_handlers[id])
       ELSE /\ ret' = [ret EXCEPT ![c] = None]
            /\ UNCHANGED <<heap, pc, ref, delivered>>
    /\ UNCHANGED <<am_handlers, native, status, nArrived, arrived, calls, installs>>
    /\ UNCHANGED hvars

\* the scheduler polls a task that notify_one has woken
Resume(c) ==
    /\ pc[c] = "woken"
    /\ wait_msg(c, ref[c])
    /\ UNCHANGED <<am_handlers, native, status, nArrived, arrived, calls, installs>>
    /\ UNCHANGED hvars

\* no call made yet
NoCall == [op |-> "none", want |-> 0, result |-> "none", n |-> 0, buf |-> <<>>,
           reported |-> "none"]

\* a worker with no handler registered and no task awaiting
QueueInit ==
    /\ am_handlers = [i \in MsgIds |-> NoHandler]
    /\ heap = <<>>
    /\ native = [i \in MsgIds |-> NoHandler]
    /\ pc = [c \in Consumers |-> "idle"]
    /\ ref = [c \in Consumers |-> NoHandler]
    /\ ret = [c \in Consumers |-> None]
    /\ status = UCS_OK
    /\ nArrived = 0
    /\ arrived = <<>>
    /\ delivered = <<>>
    /\ calls = [i \in MsgIds |-> 0]
    /\ installs = [i \in MsgIds |-> 0]

\* no message handle has been handed out
Init ==
    /\ QueueInit
    /\ amsg = None
    /\ wire = None
    /\ task = "idle"
    /\ call = NoCall
    /\ iov = <<>>
    /\ request = "none"
    /\ released = 0
    /\ consumed = 0
    /\ sends = 0

\* ---- AmMsg: the message handle -------------------------------------------
FIELD_REPLY_EP == "UCP_AM_RECV_ATTR_FIELD_REPLY_EP"
MsgAttrs == SUBSET {FLAG_DATA, FLAG_RNDV, FIELD_REPLY_EP}
NULL_EP == "null"
Endpoints == {NULL_EP, "ep"}
\* a failure status of the transport (any ucs_status_t below UCS_OK)
UCS_ERR == "UCS_ERR"

Min(a, b) == IF a < b THEN a ELSE b
RECURSIVE SeqsOfLen(_, _)
SeqsOfLen(S, n) ==
    IF n = 0 THEN {<<>>}
    ELSE {Append(q, b) : q \in SeqsOfLen(S, n - 1), b \in S}

\* payload bytes a peer sends, and what memory nobody wrote may hold
MsgBytes == {1, 2}
Uninit == MsgBytes \cup {0}
MsgPayloads == UNION {SeqsOfLen(MsgBytes, n) : n \in 0..MaxDataLen}
MsgHeader == <<1, 2, 3, 4>>
\* the caller's destination regions: zero-filled buffers of every shape
Zeros(n) == [k \in 1..n |-> 0]
Regions == {Zeros(n) : n \in 0..MaxDataLen}
\* recv_data_vectored is called with no, one or two regions
Iovs == {<<>>} \cup {<<r>> : r \in Regions} \cup {<<r, q>> : r \in Regions, q \in Regions}

\* RawMsg::from_raw with the reply endpoint the handle needs
RawMsg_from_raw_ep(id, header, data, reply_ep, attr) ==
    [id |-> id, header |-> header, data |-> AmData_from_raw(data, attr),
     reply_ep |-> reply_ep, attr |-> attr]

contains_data(a) == a.msg.data # None
data_len(a) == IF a.msg.data = None THEN 0 ELSE Len(a.msg.data[1].bytes)
need_reply(a) == FIELD_REPLY_EP \in a.msg.attr /\ a.msg.reply_ep # NULL_EP

\* variant: the payload is read without being taken out of the handle
take_rest_keep(data) == data
\* Option::take leaves None behind
take_rest(data) == None

\* iov.iter().fold(0, |cap, buf| cap + buf.len())
RECURSIVE Capacity(_)
Capacity(regions) ==
    IF regions = <<>> THEN 0 ELSE Len(Head(regions)) + Capacity(Tail(regions))

\* the copy loop of recv_data_vectored for an Eager payload
RECURSIVE copy_loop(_, _, _, _)
copy_loop(regions, i, data, copyed) ==
    IF i > Len(regions) THEN [iov |-> regions, copyed |-> copyed]
    ELSE LET len == Min(copyed, Len(regions[i])) IN
         IF len = 0 THEN [iov |-> regions, copyed |-> copyed]
         ELSE copy_loop([regions EXCEPT ![i] =
                            [k \in 1..Len(@) |-> IF k <= len THEN data[copyed + k] ELSE @[k]]],
                        i + 1, data, copyed + len)

\* what a completed ucp_am_recv_data_nbx leaves in the destination regions
RECURSIVE scatter(_, _, _)
scatter(regions, i, bytes) ==
    IF i > Len(regions) THEN regions
    ELSE LET n == Min(Len(bytes), Len(regions[i])) IN
         scatter([regions EXCEPT ![i] = SubSeq(bytes, 1, n) \o SubSeq(@, n + 1, Len(@))],
                 i + 1, SubSeq(bytes, n + 1, Len(bytes)))

\* variant: only a Data descriptor is released on drop
drop_releases_data_only(data) ==
    IF data # None /\ data[1].type = "Data" THEN 1 ELSE 0
\* Drop for AmMsg: the number of ucp_am_data_release calls
drop_releases(data) ==
    IF data # None /\ data[1].type \in {"Data", "Rndv"} THEN 1 ELSE 0

\* variant: the request is reported ready whatever its status
poll_recv_ready(st) == "Ready"
poll_recv(st) == IF st = UCS_INPROGRESS THEN "Pending" ELSE "Ready"
poll_normal(st) == IF st = UCS_INPROGRESS THEN "Pending" ELSE "Ready"

Retrievals == {"recv_data", "recv_data_single", "recv_data_vectored"}
Sends == {"reply", "reply_vectorized", "am_send"}

\* the value a retrieval returns: recv_data the truncated buffer, the others n
Returned(op, want, n, regions, reported) ==
    [op |-> op, want |-> want, result |-> "Ok",
     n |-> IF op = "recv_data" THEN 0 ELSE n,
     buf |-> IF op = "recv_data" THEN SubSeq(regions[1], 1, n) ELSE <<>>,
     reported |-> reported]
Pending(op, want) ==
    [op |-> op, want |-> want, result |-> "pending", n |-> 0, buf |-> <<>>,
     reported |-> UCS_INPROGRESS]
Panicked(op, want, reported) ==
    [op |-> op, want |-> want, result |-> "panic", n |-> 0, buf |-> <<>>,
     reported |-> reported]

\* a panic unwinds the task: the handle is dropped with the payload it holds then
panic(op, want, reported, data) ==
    /\ call' = Panicked(op, want, reported)
    /\ task' = "panicked"
    /\ amsg' = [amsg EXCEPT !.msg.data = None]
    /\ released' = released + drop_releases(data)
    /\ request' = "none"

\* AmMsg::recv_data_vectored on the regions iov; st is what
\* ucp_am_recv_data_nbx returns: "NULL", a request ("PTR") or a status ("ERR")
recv_data_vectored(op, regions, st) ==
    LET data == amsg.msg.data
        left == take_rest(data)
        want == data_len(amsg)
    IN  IF data = None
        THEN /\ call' = Returned(op, want, 0, regions, "none")
             /\ iov' = regions
             /\ amsg' = [amsg EXCEPT !.msg.data = left]
             /\ UNCHANGED <<task, request, released, consumed>>
        ELSE IF data[1].type = "Eager"
        THEN IF Capacity(regions) >= Len(data[1].bytes)
             THEN LET r == copy_loop(regions, 1, data[1].bytes, 0) IN
                  /\ call' = Returned(op, want, r.copyed, r.iov, "none")
                  /\ iov' = r.iov
                  /\ amsg' = [amsg EXCEPT !.msg.data = left]
                  /\ UNCHANGED <<task, request, released, consumed>>
             ELSE /\ panic(op, want, "none", left)
                  /\ iov' = regions
                  /\ consumed' = consumed
        ELSE CASE st = "NULL" ->
                  /\ Capacity(regions) >= want
                  /\ iov' = scatter(regions, 1, data[1].bytes)
                  /\ call' = Returned(op, want, want, scatter(regions, 1, data[1].bytes), UCS_OK)
                  /\ consumed' = consumed + 1
                  /\ amsg' = [amsg EXCEPT !.msg.data = left]
                  /\ UNCHANGED <<task, request, released>>
               [] st = "PTR" ->
                  /\ request' = UCS_INPROGRESS
                  /\ task' = "await"
                  /\ call' = Pending(op, want)
                  /\ iov' = regions
                  /\ amsg' = [amsg EXCEPT !.msg.data = left]
                  /\ UNCHANGED <<released, consumed>>
               [] OTHER ->
                  /\ panic(op, want, UCS_ERR, left)
                  /\ iov' = regions
                  /\ consumed' = consumed

Submit == {"NULL", "PTR", "ERR"}

HandleHeld == task = "idle" /\ amsg # None

\* AmMsg::recv_data: the owned-buffer form
recv_data(st) ==
    /\ HandleHeld
    /\ LET data == amsg.msg.data IN
       IF data = None
       THEN /\ call' = Returned("recv_data", 0, 0, <<<<>>>>, "none")
            /\ iov' = <<>>
            /\ UNCHANGED <<amsg, task, request, released, consumed>>
       ELSE IF data[1].type = "Eager"
       THEN /\ call' = Returned("recv_data", data_len(amsg), data_len(amsg),
                                <<data[1].bytes>>, "none")
            /\ iov' = <<>>
            /\ amsg' = [amsg EXCEPT !.msg.data = take_rest(data)]
            /\ UNCHANGED <<task, request, released, consumed>>
       ELSE \E buf \in SeqsOfLen(Uninit, data_len(amsg)) :
                recv_data_vectored("recv_data", <<buf>>, st)
    /\ UNCHANGED <<wire, sends>>
    /\ UNCHANGED qvars

\* AmMsg::recv_data_single: the caller-buffer form with one region
recv_data_single(buf, st) ==
    /\ HandleHeld
    /\ IF ~contains_data(amsg)
       THEN /\ call' = Returned("recv_data_single", 0, 0, <<buf>>, "none")
            /\ iov' = <<buf>>
            /\ UNCHANGED <<amsg, task, request, released, consumed>>
       ELSE recv_data_vectored("recv_data_single", <<buf>>, st)
    /\ UNCHANGED <<wire, sends>>
    /\ UNCHANGED qvars

\* AmMsg::recv_data_vectored called by the task itself
recv_data_iov(regions, st) ==
    /\ HandleHeld
    /\ recv_data_vectored("recv_data_vectored", regions, st)
    /\ UNCHANGED <<wire, sends>>
    /\ UNCHANGED qvars

\* am_send: submit through ucp_am_send_nbx; st is what it returns
am_send(op, st) ==
    /\ sends < MaxSends
    /\ sends' = sends + 1
    /\ CASE st = "NULL" ->
            /\ call' = [op |-> op, want |-> 0, result |-> "Ok", n |-> 0, buf |-> <<>>,
                        reported |-> UCS_OK]
            /\ UNCHANGED <<amsg, task, request, released>>
         [] st = "PTR" ->
            /\ call' = Pending(op, 0)
            /\ task' = "await"
            /\ request' = UCS_INPROGRESS
            /\ UNCHANGED <<amsg, released>>
         [] OTHER -> panic(op, 0, UCS_ERR, amsg.msg.data)

\* AmMsg::reply and AmMsg::reply_vectorized: assert need_reply, then am_send
reply(op, st) ==
    /\ HandleHeld
    /\ IF need_reply(amsg)
       THEN am_send(op, st)
       ELSE /\ panic(op, 0, "none", amsg.msg.data)
            /\ sends' = sends
    /\ UNCHANGED <<wire, iov, consumed>>
    /\ UNCHANGED qvars

\* Endpoint::am_send by the task that holds the handle
Endpoint_am_send(st) ==
    /\ HandleHeld
    /\ am_send("am_send", st)
    /\ UNCHANGED <<wire, iov, consumed>>
    /\ UNCHANGED qvars

\* the transport completes the pending request with status st and calls the
\* completion callback, which wakes the awaiting task
Complete(st) ==
    /\ request = UCS_INPROGRESS
    /\ request' = st
    /\ call' = [call EXCEPT !.reported = st]
    /\ IF call.op \in Retrievals /\ st = UCS_OK
       THEN /\ Capacity(iov) >= call.want
            /\ iov' = scatter(iov, 1, wire.data)
            /\ consumed' = consumed + 1
       ELSE UNCHANGED <<iov, consumed>>
    /\ UNCHANGED <<amsg, wire, task, released, sends>>
    /\ UNCHANGED qvars

\* RequestHandle::poll: the awaiting task is polled, by its own wake-up or by
\* the wake-up of a future joined with it
PollRequest ==
    /\ task = "await"
    /\ LET ready == IF call.op \in Retrievals THEN poll_recv(request)
                    ELSE poll_normal(request)
       IN  IF ready = "Ready"
           THEN /\ call' = IF call.op \in Retrievals
                           THEN Returned(call.op, call.want, call.want, iov, call.reported)
                           ELSE [call EXCEPT !.result = "Ok"]
                /\ task' = "idle"
                /\ request' = "none"
           ELSE UNCHANGED <<call, task, request>>
    /\ UNCHANGED <<amsg, wire, iov, released, consumed, sends>>
    /\ UNCHANGED qvars

\* Drop for AmMsg
drop ==
    /\ HandleHeld
    /\ released' = released + drop_releases(amsg.msg.data)
    /\ amsg' = [amsg EXCEPT !.msg.data = None]
    /\ task' = "dropped"
    /\ call' = [op |-> "drop", want |-> 0, result |-> "Ok", n |-> 0, buf |-> <<>>,
                reported |-> "none"]
    /\ UNCHANGED <<wire, iov, request, consumed, sends>>
    /\ UNCHANGED qvars

\* a task holds the handle of an envelope am_recv returned; nothing else runs
MsgInit ==
    /\ QueueInit
    /\ \E d \in MsgPayloads, ep \in Endpoints, a \in MsgAttrs :
         /\ amsg = AmMsg_from_raw(RawMsg_from_raw_ep(16, MsgHeader, d, ep, a))
         /\ wire = [header |-> MsgHeader, data |-> d]
    /\ task = "idle"
    /\ call = NoCall
    /\ iov = <<>>
    /\ request = "none"
    /\ released = 0
    /\ consumed = 0
    /\ sends = 0

MsgNext ==
    \/ \E st \in Submit : recv_data(st)
    \/ \E buf \in Regions, st \in Submit : recv_data_single(buf, st)
    \/ \E regions \in Iovs, st \in Submit : recv_data_iov(regions, st)
    \/ \E op \in {"reply", "reply_vectorized"}, st \in Submit : reply(op, st)
    \/ \E st \in Submit : Endpoint_am_send(st)
    \/ \E st \in {UCS_OK, UCS_ERR} : Complete(st)
    \/ PollRequest
    \/ drop

MsgSpec == MsgInit /\ [][MsgNext]_vars

Next ==
    \/ \E id \in Ids : am_register(id)
    \/ \E id \in Ids : am_unregister(id)
    \/ \E id \in Ids, data \in Payloads, attr \in Attrs : native_callback(id, data, attr)
    \/ \E c \in Consumers, id \in Ids : am_recv(c, id)
    \/ \E c \in Consumers : Resume(c)

Spec == Init /\ [][Next]_vars

\* The queue and wake-up protocol never reads an envelope's payload or flags:
\* QueueSpec is Spec with the transport delivering eager messages only.
QueueNext ==
    \/ \E id \in Ids : am_register(id)
    \/ \E id \in Ids : am_unregister(id)
    \/ \E id \in Ids, data \in Payloads : native_callback(id, data, {})
    \/ \E c \in Consumers, id \in Ids : am_recv(c, id)
    \/ \E c \in Consumers : Resume(c)

QueueSpec == Init /\ [][QueueNext]_vars

\* the task scheduler eventually polls every woken task; arrivals and public
\* calls are the environment's and carry no fairness
FairSpec == QueueSpec /\ \A c \in Consumers : WF_vars(Resume(c))

\* each consumer task serves one of the two ids, as the two tasks of the
\* repository's test do
ServedId(c) == IF c % 2 = 1 THEN 16 ELSE 12

\* QueueSpec with the public calls and the arrivals spread over both message
\* ids: each consumer waits on the id it serves and every arrival carries the
\* same one-byte eager payload
IsoNext ==
    \/ \E id \in MsgIds : am_register(id)
    \/ \E id \in MsgIds : am_unregister(id)
    \/ \E id \in MsgIds : native_callback(id, <<1>>, {})
    \/ \E c \in Consumers : am_recv(c, ServedId(c))
    \/ \E c \in Consumers : Resume(c)

IsoSpec == Init /\ [][IsoNext]_vars

\* ---- helpers of the properties -------------------------------------------
Headers(q) == [i \in 1..Len(q) |-> q[i].header]
Range(q) == {q[i] : i \in 1..Len(q)}
NonDecreasing(q) == \A i, j \in 1..Len(q) : i < j => q[i] <= q[j]
NoDuplicates(q) == \A i, j \in 1..Len(q) : i # j => q[i] # q[j]
\* the envelopes of one AmHandler: those handed out, then those still queued
Handled(h) == delivered[h] \o Headers(heap[h].msgs)
Parked(h) == {c \in Consumers : pc[c] = "waiting" /\ ref[c] = h}
Woken(h) == {c \in Consumers : pc[c] = "woken" /\ ref[c] = h}
OfId(id) == {h \in Handles : heap[h].id = id}

\* C1: per AmHandler (one registration of a message id), envelopes are handed
\* to consumers in arrival order: the headers returned so far, followed by
\* the headers still queued, are in the order the arrival callback saw them.
C1_FifoDelivery ==
    \A h \in Handles : NonDecreasing(Handled(h))
C1_Witness ==
    \E h \in Handles : Len(delivered[h]) >= 2

\* C2: after am_unregister(id), am_recv(id) keeps yielding Some until every
\* envelope enqueued for id has been handed out: an am_recv(id) that returns
\* None leaves no envelope queued for id.
C2_UnregisterDrains ==
    [][\A c \in Consumers, id \in Ids :
         (am_recv(c, id) /\ pc'[c] = "idle" /\ ret'[c] = None)
            => \A h \in OfId(id) : heap[h].msgs = <<>>]_vars

\* C3: a consumer parked in wait_msg when its handler is unregistered
\* eventually resumes and returns, with no further arrival needed.
C3_UnregisterWakesWaiter ==
    \A c \in Consumers :
        (pc[c] = "waiting" /\ heap[ref[c]].unregistered) ~> (pc[c] = "idle")

\* C4: once the unregistered flag of an AmHandler is true, its queue never
\* grows.
C4_NoArrivalAfterUnregister ==
    [][\A h \in Handles :
         heap[h].unregistered => Len(heap'[h].msgs) <= Len(heap[h].msgs)]_vars

\* C5: no lost wake-up: a consumer parked on a handler whose queue is
\* non-empty does not stay parked with the queue non-empty forever, and a
\* queued envelope is eventually handed out as long as a waiter exists.
C5_NoLostWakeup ==
    /\ \A c \in Consumers :
         (pc[c] = "waiting" /\ heap[ref[c]].msgs # <<>>)
            ~> (pc[c] # "waiting" \/ heap[ref[c]].msgs = <<>>)
    /\ \A n \in 1..MaxArrivals :
         (\E h \in Handles : n \in Range(Headers(heap[h].msgs))
                             /\ Parked(h) \cup Woken(h) # {})
            ~> (\A h \in Handles : n \in Range(Headers(heap[h].msgs))
                                     => Parked(h) \cup Woken(h) = {})
C5_Witness ==
    \E h \in Handles :
        /\ ~heap[h].unregistered
        /\ Parked(h) # {} /\ Woken(h) # {}
        /\ heap[h].msgs # <<>>

\* C6: every envelope leaves the queue exactly once: what has been handed
\* out plus what is queued is exactly what arrived, without repetition, and
\* no two consumers hold the same envelope.
C6_ExactlyOnce ==
    /\ \A h \in Handles :
         /\ NoDuplicates(Handled(h))
         /\ Range(Handled(h)) = Range(arrived[h])
    /\ \A c, d \in Consumers :
         (c # d /\ ret[c] # None /\ ret[d] # None)
            => ret[c][1].msg.header # ret[d][1].msg.header
C6_Witness ==
    \E c, d \in Consumers :
        /\ c # d /\ ret[c] # None /\ ret[d] # None
        /\ ret[c][1].msg.id = ret[d][1].msg.id

\* C7: am_register is idempotent: on an id already in the map it changes
\* neither the map, the handlers and their queues, nor the native table, and
\* however many am_register(id) calls follow the last am_unregister(id), the
\* native callback has been installed exactly once since then.
C7_RegisterIdempotent ==
    /\ [](\A id \in Ids : calls[id] >= 1 => installs[id] = 1)
    /\ [][\A id \in Ids :
            (am_handlers[id] # NoHandler /\ am_register(id))
               => UNCHANGED <<am_handlers, heap, native, installs>>]_vars
C7_Witness ==
    \E id \in Ids :
        /\ calls[id] >= 2 /\ installs[id] = 1
        /\ am_handlers[id] # NoHandler
        /\ heap[am_handlers[id]].msgs # <<>>

\* C8: am_unregister(id) removes the mapping and sets the flag but leaves
\* every queue as it was, and a wait_msg that runs on the unregistered
\* handler still returns the envelope at the front of its queue.
C8_UnregisterKeepsQueue ==
    /\ [][\A id \in Ids :
            am_unregister(id)
               => /\ am_handlers'[id] = NoHandler
                  /\ \A h \in Handles : heap'[h].msgs = heap[h].msgs
                  /\ am_handlers[id] # NoHandler
                        => heap'[am_handlers[id]].unregistered]_vars
    /\ [][\A c \in Consumers :
            (Resume(c) /\ heap[ref[c]].unregistered /\ heap[ref[c]].msgs # <<>>)
               => /\ ret'[c] = Some(AmMsg_from_raw(Head(heap[ref[c]].msgs)))
                  /\ heap'[ref[c]].msgs = Tail(heap[ref[c]].msgs)]_vars
C8_Witness ==
    \E c \in Consumers :
        /\ pc[c] = "woken"
        /\ heap[ref[c]].unregistered
        /\ Len(heap[ref[c]].msgs) >= 2

\* C9: classification at arrival follows the flags, rendezvous first: a
\* non-empty payload is Rndv when the RNDV flag is set, Data when only the
\* DATA flag is set, and Eager when neither is.
C9_Classification ==
    \A h \in Handles : \A i \in 1..Len(heap[h].msgs) :
        LET m == heap[h].msgs[i] IN
        m.data # None =>
            /\ FLAG_RNDV \in m.attr => m.data[1].type = "Rndv"
            /\ (FLAG_DATA \in m.attr /\ FLAG_RNDV \notin m.attr) => m.data[1].type = "Data"
            /\ (m.attr \cap {FLAG_DATA, FLAG_RNDV} = {}) => m.data[1].type = "Eager"

\* C10: the status returned to the transport matches the envelope just
\* enqueued: in progress exactly when its payload is a Data or Rndv
\* descriptor, ok exactly when the payload is Eager or absent.
C10_StatusMatchesOwnership ==
    [][nArrived' # nArrived =>
         \A h \in Handles : \A i \in 1..Len(heap'[h].msgs) :
             LET m == heap'[h].msgs[i]
                 deferred == m.data # None /\ m.data[1].type \in {"Data", "Rndv"}
             IN  m.header = nArrived' => (status' = UCS_INPROGRESS <=> deferred)]_vars

\* ---- properties of the message handle ------------------------------------
Flatten(regions) ==
    IF regions = <<>> THEN <<>>
    ELSE IF Len(regions) = 1 THEN regions[1]
    ELSE regions[1] \o regions[2]
\* the payload kind the handle was created with
WireKind == IF AmData_from_raw(wire.data, amsg.msg.attr) = None THEN "None"
            ELSE AmData_from_raw(wire.data, amsg.msg.attr)[1].type
IsCall(ops) == call' # call /\ call'.op \in ops

\* C11: retrieval is at-most-once: once a retrieval has returned Ok the handle
\* holds no payload (contains_data false, data_len 0), a payload field that is
\* None stays None, and a retrieval on a handle without payload returns Ok
\* with an empty result.
C11_AtMostOnce ==
    /\ []((call.op \in Retrievals /\ call.result = "Ok")
            => (~contains_data(amsg) /\ data_len(amsg) = 0))
    /\ [][amsg.msg.data = None => amsg'.msg.data = None]_vars
    /\ [][(task = "idle" /\ amsg.msg.data = None /\ IsCall(Retrievals))
            => (call'.result = "Ok" /\ call'.n = 0 /\ call'.buf = <<>>)]_vars
C11_Witness ==
    /\ wire.data # <<>>
    /\ call.op \in Retrievals /\ call.result = "Ok" /\ call.want = 0

\* C12: a caller-buffer retrieval of an Eager payload of length L into regions
\* of total capacity >= L returns L, and the first L bytes of the regions are
\* the payload.
C12_CallerBufferCopy ==
    [][(/\ task = "idle" /\ amsg.msg.data # None
        /\ IsCall({"recv_data_single", "recv_data_vectored"}))
         => LET d == amsg.msg.data[1] IN
            (d.type = "Eager" /\ Capacity(iov') >= Len(d.bytes))
               => /\ call'.result = "Ok"
                  /\ call'.n = Len(d.bytes)
                  /\ SubSeq(Flatten(iov'), 1, Len(d.bytes)) = d.bytes]_vars

\* C13: recv_data on a handle with an unconsumed payload returns a buffer of
\* the data_len seen before the call holding the bytes that were sent, and
\* the handle's header is the header sent.
C13_OwnedBuffer ==
    /\ amsg.msg.header = wire.header
    /\ (call.op = "recv_data" /\ call.result = "Ok" /\ call.want > 0)
          => (Len(call.buf) = call.want /\ call.buf = wire.data)

\* C14: a caller-buffer retrieval into regions smaller than the payload
\* neither succeeds nor panics: it returns an error value.
C14_BufferTooSmall ==
    (call.op \in {"recv_data_single", "recv_data_vectored"} /\ Capacity(iov) < call.want)
       => call.result \notin {"Ok", "panic"}

\* C15: reply and reply_vectorized on a handle without reply capability
\* return an error value and submit no send.
C15_ReplyGating ==
    [][(task = "idle" /\ ~need_reply(amsg) /\ IsCall({"reply", "reply_vectorized"}))
         => (call'.result = "Err" /\ sends' = sends)]_vars

\* C16: an operation for which the transport reported a failure status, at
\* submission or at completion, neither returns Ok nor panics.
C16_FailurePropagates ==
    (call.op \in Retrievals \cup Sends /\ call.reported = UCS_ERR)
       => call.result \notin {"Ok", "panic"}

\* C17: a Data or Rndv descriptor is given back to the transport exactly once
\* over the life of its handle: never twice, and once the handle is dropped it
\* has been consumed by a completed pull or released.
C17_ReleasedExactlyOnce ==
    /\ released + consumed <= 1
    /\ (task = "dropped" /\ WireKind \in {"Data", "Rndv"}) => released + consumed = 1

\* C18: dropping a handle calls ucp_am_data_release once when the payload
\* field holds a Data or Rndv descriptor and not at all when it holds an
\* Eager payload or None.
C18_DropReleases ==
    [][(task = "idle" /\ task' = "dropped")
         => released' - released =
               (IF amsg.msg.data # None /\ amsg.msg.data[1].type \in {"Data", "Rndv"}
                THEN 1 ELSE 0)]_vars
C18_Witness ==
    /\ task = "dropped" /\ released = 1
    /\ WireKind = "Rndv" /\ consumed = 0

\* C19: a send or pull returns only after the native operation completed: a
\* task leaves its await only when the request is no longer in progress, a
\* request in progress keeps its task suspended, and an operation the
\* transport completed at submission returns Ok without suspending.
C19_ReturnsAfterCompletion ==
    /\ [][(task = "await" /\ task' # "await") => request \in {UCS_OK, UCS_ERR}]_vars
    /\ [](request = UCS_INPROGRESS => (task = "await" /\ call.result = "pending"))
    /\ [][(task = "idle" /\ IsCall(Retrievals \cup Sends) /\ call'.reported = UCS_OK)
            => (task' = "idle" /\ call'.result = "Ok")]_vars
C19_Witness ==
    /\ task = "await" /\ request = UCS_OK
    /\ call.op \in Retrievals

\* C20: message ids are isolated: an arrival for id X changes only the queue
\* of the handler installed for X, which is a handler of id X; the handler
\* am_recv(id) waits on is a handler of id; and every AmMsg a wait returns
\* carries the id of the handler it waited on.
C20_IdIsolation ==
    /\ [](\A id \in MsgIds :
            /\ am_handlers[id] # NoHandler => heap[am_handlers[id]].id = id
            /\ native[id] # NoHandler => heap[native[id]].id = id)
    /\ [][\A id \in MsgIds :
            native_callback(id, <<1>>, {})
               => \A h \in Handles : heap'[h].msgs # heap[h].msgs
                                       => (h = native[id] /\ heap[h].id = id)]_vars
    /\ [][\A c \in Consumers, id \in MsgIds :
            (am_recv(c, id) /\ ret'[c] # None) => ret'[c][1].msg.id = id]_vars
    /\ [][\A c \in Consumers :
            (Resume(c) /\ ret'[c] # None) => ret'[c][1].msg.id = heap[ref[c]].id]_vars
C20_Witness ==
    \E g, h \in Handles :
        /\ heap[g].id # heap[h].id
        /\ delivered[g] # <<>> /\ delivered[h] # <<>>

\* C21: am_recv(id) for an id with no entry in the handler map, never
\* registered or already unregistered, returns None at once: the calling task
\* is not suspended and no handler's queue, nor anything else of a handler,
\* changes.
C21_RecvWithoutHandler ==
    [][\A c \in Consumers, id \in Ids :
         (am_handlers[id] = NoHandler /\ am_recv(c, id))
            => /\ ret'[c] = None
               /\ pc'[c] = "idle"
               /\ heap' = heap
               /\ delivered' = delivered]_vars
\* a task that had been handed a message asked again after the unregistration
\* and holds None, while a message is still queued in the old handler
C21_Witness ==
    /\ \A id \in Ids : am_handlers[id] = NoHandler
    /\ \A c \in Consumers : pc[c] = "idle" /\ ret[c] = None
    /\ Len(heap) = 1
    /\ delivered[1] # <<>> /\ heap[1].msgs # <<>>

====
